---- MODULE Spec2Model ----
(***************************************************************************)
(* Conversation orchestration of the GenAI chatbot: the ConversationManager *)
(* (per-user sessions, intent-based routing, clearing, inactivity sweep),  *)
(* the ChatChain history and the IntentClassifier, and the knowledge base   *)
(* behind the RAG pipeline (RAGChain, VectorStore, DocumentLoader and the   *)
(* upload / initialize / clear / delete endpoints), as a state machine.     *)
(*                                                                         *)
(* The server runs its coroutines on one asyncio event loop, so the code   *)
(* between two awaits is one atomic step.  process_message awaits exactly  *)
(* once, on the generation backend (llm.ainvoke / chain.ainvoke); it is    *)
(* modelled as two steps: ProcessMessage (up to the await) and ChatResume  *)
(* or RagResume (from the await to the return).  Every other operation of  *)
(* the manager is synchronous and is one step.  Of the endpoints modelled  *)
(* here upload_document and check_duplicate await (file.read()); the       *)
(* others run from their first line to their return in one step.           *)
(***************************************************************************)
EXTENDS Integers, Sequences, FiniteSets, TLC

VARIABLES
    conversations,   \* ConversationManager.conversations: user -> ChatChain memory (message list)
    user_metadata,   \* ConversationManager.user_metadata: user -> created_at, message_count, last_activity
    key_order,       \* insertion order of the keys of user_metadata (a dict iterates in that order)
    calls,           \* the process_message coroutines suspended at the backend await: a bag of frames
    now,             \* time.time(), in seconds
    last,            \* the operation that ran last and what it returned (or that it raised)
    counting,        \* whether this run keeps the tally `sent` (fixed at the start)
    sent,            \* per user: process_message calls begun since the count was last known to be 0
    data_dir,        \* the data directory: file name -> what the file holds (FileStates)
    collection,      \* the Chroma collection "documents": a bag of chunks
    uploads,         \* the coroutines of the endpoints suspended at an await: a set of frames
    persist_directory \* VectorStore.persist_directory: the directory handed to Chroma

vars == <<conversations, user_metadata, key_order, calls, now, last, counting, sent,
          data_dir, collection, uploads, persist_directory>>

\* the variables of the sessions without `last`, and those of the knowledge base
sessionvars == <<conversations, user_metadata, key_order, calls, now, counting, sent>>
kbvars == <<data_dir, collection, uploads, persist_directory>>

----------------------------------------------------------------------------
(* Bounds of the model *)

Users == {"u1", "u2"}
\* process_message coroutines suspended at the same time
MaxInFlight == 2
\* hours the clock may advance
MaxTime == 1
\* process_message calls per user between two resets of its count
MaxCalls == 2
\* largest max_inactive_hours passed to the sweep
MaxHours == 1
\* longest message, in words, given to the classifier on its own
MaxLen == 4
\* times one chunk may be in the collection
MaxCopies == 2
\* upload_document coroutines suspended at the same time
MaxUploads == 1

\* 3600 seconds per hour, conversation_manager.py:167
SecondsPerHour == 3600
\* similarity_search(query, k=4), rag_chain.py:53
RetrievalK == 4
\* characters of a segment shown in the context, rag_chain.py:110
ContentLimit == 500

UseRagArgs == {"none", "true", "false"}

----------------------------------------------------------------------------
(* IntentClassifier *)

\* IntentType values in the order of self.patterns (a dict keeps insertion order)
PatternIntents == <<"technical", "help", "knowledge", "system">>

\* self.patterns: per intent, the list of regular expressions; each expression
\* \b(a|b|...)\b is the set of its alternatives
Patterns ==
    [technical |-> <<
        {"api", "endpoint", "server", "deployment", "docker", "kubernetes", "jenkins",
         "mlflow", "prometheus", "grafana"},
        {"openai", "gpt", "langchain", "chromadb", "vector", "embedding"},
        {"fastapi", "uvicorn", "poetry", "requirements", "dependencies"},
        {"architecture", "system", "infrastructure", "monitoring", "logging"},
        {"production", "development", "staging", "environment"} >>,
     help |-> <<
        {"help", "support", "assist", "guide", "tutorial", "how to", "what is"},
        {"problem", "issue", "error", "bug", "fix", "troubleshoot"},
        {"can you help", "need help", "stuck", "confused"} >>,
     knowledge |-> <<
        {"features", "capabilities", "what can", "abilities", "functions"},
        {"rag", "retrieval", "document", "knowledge", "information"},
        {"chatbot", "ai", "assistant", "intelligence"},
        {"explain", "describe", "tell me about", "what are"} >>,
     system |-> <<
        {"status", "health", "uptime", "performance", "metrics"},
        {"stats", "statistics", "monitoring", "logs"},
        {"version", "update", "upgrade", "maintenance"},
        {"server", "service", "application", "system"} >>]

\* A message is its lower-cased text cut into the words and phrases the
\* patterns can match (message.lower(), then findall per pattern); the messages
\* used here hold no phrase that contains another alternative ("need help").
Messages ==
    { <<"hello", "there">>,
      <<"what is", "the", "docker", "deployment", "architecture">>,
      <<"help", "me">>,
      <<"tell me about", "the", "features">>,
      <<"status", "update">> }

\* the words of the messages given to the classifier on its own: without a match,
\* matching one category, and matching TECHNICAL and SYSTEM at once ("server")
Vocabulary == {"hello", "docker", "server", "help", "document", "status"}

TestMessages == UNION {[1..n -> Vocabulary] : n \in 0..MaxLen}

\* len(pattern.findall(message_lower)): the occurrences of the pattern's alternatives
FindAllCount(pattern, message) ==
    Cardinality({i \in 1..Len(message) : message[i] \in pattern})

RECURSIVE SumMatches(_, _, _)
SumMatches(patterns, message, i) ==
    IF i > Len(patterns) THEN 0
    ELSE FindAllCount(patterns[i], message) + SumMatches(patterns, message, i + 1)

\* score of one intent, in units of the 0.3 weight (number of matches)
Score(intent, message) == SumMatches(Patterns[intent], message, 1)

\* a max() that keeps the last of the intents whose score is maximal
RECURSIVE BestFrom_LastWins(_, _, _)
BestFrom_LastWins(message, i, best) ==
    IF i > Len(PatternIntents) THEN best
    ELSE LET s == Score(PatternIntents[i], message)
         IN BestFrom_LastWins(message, i + 1,
                              IF s > 0 /\ s >= best.score
                              THEN [intent |-> PatternIntents[i], score |-> s]
                              ELSE best)

\* max(scores.items(), key=...) over the intents with score > 0: the first
\* intent, in insertion order, whose score is maximal
RECURSIVE BestFrom(_, _, _)
BestFrom(message, i, best) ==
    IF i > Len(PatternIntents) THEN best
    ELSE LET s == Score(PatternIntents[i], message)
         IN BestFrom(message, i + 1,
                     IF s > 0 /\ s > best.score
                     THEN [intent |-> PatternIntents[i], score |-> s]
                     ELSE best)

Min(a, b) == IF a < b THEN a ELSE b

\* a classify_intent without the min(..., 1.0) cap
classify_intent_Uncapped(message) ==
    LET best == BestFrom(message, 1, [intent |-> "general", score |-> 0])
    IN IF best.score = 0
       THEN [intent |-> "general", confidence |-> 50]
       ELSE [intent |-> best.intent, confidence |-> 50 + 15 * best.score]

\* classify_intent: (intent, confidence), the confidence in hundredths:
\* (GENERAL, 0.5) without a match, else min(0.5 + 0.3 * n * 0.5, 1.0)
classify_intent(message) ==
    LET best == BestFrom(message, 1, [intent |-> "general", score |-> 0])
    IN IF best.score = 0
       THEN [intent |-> "general", confidence |-> 50]
       ELSE [intent |-> best.intent, confidence |-> Min(50 + 15 * best.score, 100)]

\* a table in which SYSTEM asks for the RAG pipeline
IntentMetadata_SystemRag ==
    [general   |-> [use_rag |-> FALSE, response_style |-> "conversational"],
     technical |-> [use_rag |-> TRUE,  response_style |-> "technical"],
     help      |-> [use_rag |-> TRUE,  response_style |-> "helpful"],
     knowledge |-> [use_rag |-> TRUE,  response_style |-> "informative"],
     system    |-> [use_rag |-> TRUE,  response_style |-> "system"]]

\* get_intent_metadata: the static table
IntentMetadata ==
    [general   |-> [use_rag |-> FALSE, response_style |-> "conversational"],
     technical |-> [use_rag |-> TRUE,  response_style |-> "technical"],
     help      |-> [use_rag |-> TRUE,  response_style |-> "helpful"],
     knowledge |-> [use_rag |-> TRUE,  response_style |-> "informative"],
     system    |-> [use_rag |-> FALSE, response_style |-> "system"]]

get_intent_metadata(intent) ==
    IF intent \in DOMAIN IntentMetadata THEN IntentMetadata[intent]
    ELSE IntentMetadata["general"]

should_use_rag(intent) == get_intent_metadata(intent).use_rag

\* classify_intent is a pure function of the message: its value per message
Classified == [m \in Messages |-> classify_intent(m)]

----------------------------------------------------------------------------
(* Dictionaries *)

Put(f, k, v) == [x \in (DOMAIN f) \cup {k} |-> IF x = k THEN v ELSE f[x]]
Drop(f, k) == [x \in (DOMAIN f) \ {k} |-> f[x]]
Without(seq, k) == SelectSeq(seq, LAMBDA x : x # k)
EmptyDict == [x \in {} |-> 0]

\* The manager's three containers, passed through the synchronous helpers
Manager == [conv |-> conversations, meta |-> user_metadata, order |-> key_order]

NewMetadata(t) == [created_at |-> t, message_count |-> 0, last_activity |-> t]


\* Bags of coroutine frames: frame -> number of coroutines in that state
BagAdd(b, f) == IF f \in DOMAIN b THEN [b EXCEPT ![f] = @ + 1] ELSE Put(b, f, 1)
BagRemove(b, f) == IF b[f] = 1 THEN Drop(b, f) ELSE [b EXCEPT ![f] = @ - 1]

RECURSIVE BagSizeOver(_, _)
BagSizeOver(b, fs) ==
    IF fs = {} THEN 0
    ELSE LET f == CHOOSE x \in fs : TRUE IN b[f] + BagSizeOver(b, fs \ {f})

BagSize(b) == BagSizeOver(b, DOMAIN b)

InFlight(u) == {f \in DOMAIN calls : f.user = u}

----------------------------------------------------------------------------
(* ChatChain *)

HumanMessage(m) == [role |-> "human", content |-> m]
AIMessage(text) == [role |-> "ai", content |-> text]

\* the text the generation backend produces for a message
Reply(m) == <<"reply to">> \o m

\* the usage the OpenAI callback reports for a completed generation
TokenCounts == {12}

\* the string built from the exception, "I apologize, but I encountered an error: ..."
Apology == <<"I apologize, but I encountered an error">>

\* a chat() that records the reply without the user message
AddTurn_ReplyOnly(messages, m, text) == Append(messages, AIMessage(text))

\* chat(), lines 76-78: add_user_message, then add_ai_message
AddTurn(messages, m, text) == Append(Append(messages, HumanMessage(m)), AIMessage(text))

\* a chat() that records the user message before the generation is awaited, so
\* that a failed turn leaves it in the memory
ChatMemory_RecordsFailedTurn(messages, m, ok) ==
    IF ok THEN AddTurn(messages, m, Reply(m)) ELSE Append(messages, HumanMessage(m))

\* a chat() that puts the new turn in front of the earlier ones
ChatMemory_Prepends(messages, m, ok) ==
    IF ok THEN <<HumanMessage(m), AIMessage(Reply(m))>> \o messages ELSE messages

\* chat(): the memory after the awaited generation succeeded (ok) or raised
ChatMemory(messages, m, ok) ==
    IF ok THEN AddTurn(messages, m, Reply(m)) ELSE messages

\* chat(): the returned dictionary
ChatResult(m, ok, tokens) ==
    IF ok
    THEN [response |-> Reply(m), tokens_used |-> tokens, cost |-> tokens]
    ELSE [response |-> Apology, tokens_used |-> 0, cost |-> 0]

\* ChatChain.get_conversation_history: the messages paired two by two
chain_history(messages) ==
    [k \in 1..(Len(messages) \div 2) |->
        [user |-> messages[2 * k - 1].content, assistant |-> messages[2 * k].content]]

----------------------------------------------------------------------------
(* DocumentLoader *)

\* the files the requests name
Filenames == {"a.txt", "b.pdf"}

\* the temporary file of check_duplicate for an uploaded file, main.py line 608
TempName == ("a.txt" :> "temp_a.txt") @@ ("b.pdf" :> "temp_b.pdf")

\* the files a data directory may hold besides
OtherFiles == {"c.md"}

\* what follows the last dot of a file name
Suffix ==
    ("a.txt" :> "txt") @@ ("b.pdf" :> "pdf") @@ ("c.md" :> "md")
        @@ ("temp_a.txt" :> "txt") @@ ("temp_b.pdf" :> "pdf")

\* a langchain Document: metadata source and page (<<>> without a page), and the
\* length of its page_content
Document(source, page, len) == [source |-> source, page |-> page, len |-> len]

\* what a file of the data directory holds: nothing yet (created, not written),
\* a readable document, or bytes that no loader can read
FileStates == {"empty", "full", "corrupt"}

\* what a langchain loader does: it raises, or it returns Documents
Raised == [raised |-> TRUE, docs |-> <<>>]
Loaded(docs) == [raised |-> FALSE, docs |-> docs]

\* TextLoader(path).load(): one Document for the file, empty for an empty file;
\* raises when there is no such file and when the bytes cannot be decoded
TextLoader(name, state) ==
    IF state \in {"corrupt", "missing"} THEN Raised
    ELSE Loaded(<<Document(name, <<>>, IF state = "full" THEN 800 ELSE 0)>>)

\* PyPDFLoader(path).load(): one Document per page, pages numbered from 0; raises
\* when there is no such file, on an empty file and on one that is no PDF
PyPDFLoader(name, state) ==
    IF state = "full"
    THEN Loaded(<<Document(name, <<0>>, ContentLimit), Document(name, <<1>>, 120)>>)
    ELSE Raised

\* load_text, lines 51-56: [] when the loader raises
load_text(name, state) ==
    IF TextLoader(name, state).raised THEN <<>> ELSE TextLoader(name, state).docs

\* load_pdf, lines 34-39: [] when the loader raises
load_pdf(name, state) ==
    IF PyPDFLoader(name, state).raised THEN <<>> ELSE PyPDFLoader(name, state).docs

RECURSIVE LoadEach(_, _)
LoadEach(dir, names) ==
    IF names = {} THEN <<>>
    ELSE LET n == CHOOSE x \in names : TRUE
         IN (IF Suffix[n] = "pdf" THEN load_pdf(n, dir[n]) ELSE load_text(n, dir[n]))
            \o LoadEach(dir, names \ {n})

\* a load_all_documents that gives the batch up when a file fails to load
load_all_documents_AbortsBatch(dir) ==
    IF \E n \in DOMAIN dir : Suffix[n] \in {"pdf", "txt"} /\ dir[n] = "corrupt"
    THEN <<>>
    ELSE LoadEach(dir, {n \in DOMAIN dir : Suffix[n] = "pdf"})
             \o LoadEach(dir, {n \in DOMAIN dir : Suffix[n] = "txt"})

\* load_all_documents: the *.pdf files, then the *.txt files
load_all_documents(dir) ==
    LoadEach(dir, {n \in DOMAIN dir : Suffix[n] = "pdf"})
        \o LoadEach(dir, {n \in DOMAIN dir : Suffix[n] = "txt"})

----------------------------------------------------------------------------
(* VectorStore.  Every operation returns the collection it leaves and the   *)
(* calls it made on the backend, in order: "ingest" and "ingested" mark the *)
(* entry into and the exit from the try block of add_documents.            *)

\* split_documents: the Documents here are shorter than chunk_size, each stays one
\* chunk; an empty text gives no chunk
split_documents(documents) == SelectSeq(documents, LAMBDA d : d.len > 0)

RECURSIVE AddChunks(_, _)
AddChunks(coll, chunks) ==
    IF chunks = <<>> THEN coll
    ELSE AddChunks(BagAdd(coll, Head(chunks)), Tail(chunks))

\* what the backend does during an ingestion: all calls succeed, or the named
\* call raises
AddOutcomes == {"ok", "split", "insert", "persist"}

\* an add_documents without the early return of lines 78-80
add_documents_NoEmptyCheck(coll, documents, outcome) ==
    [coll |-> IF outcome \in {"ok", "persist"}
              THEN AddChunks(coll, split_documents(documents)) ELSE coll,
     events |-> <<"ingest", "split", "add_documents", "persist", "ingested">>]

\* add_documents, lines 78-95: the exception of a failed call is printed, not raised
add_documents(coll, documents, outcome) ==
    IF documents = <<>> THEN [coll |-> coll, events |-> <<>>]
    ELSE [coll |-> IF outcome \in {"ok", "persist"}
                   THEN AddChunks(coll, split_documents(documents)) ELSE coll,
          events |-> <<"ingest">>
                     \o (CASE outcome = "split" -> <<"split">>
                            [] outcome = "insert" -> <<"split", "add_documents">>
                            [] OTHER -> <<"split", "add_documents", "persist">>)
                     \o <<"ingested">>]

\* the chunks by decreasing similarity to the query (the similarity is a function
\* of the query and of the chunk's text)
Ranking ==
    << Document("a.txt", <<>>, 800), Document("b.pdf", <<0>>, ContentLimit),
       Document("b.pdf", <<1>>, 120) >>

RECURSIVE Ranked(_, _)
Ranked(coll, i) ==
    IF i > Len(Ranking) THEN <<>>
    ELSE (IF Ranking[i] \in DOMAIN coll
          THEN [j \in 1..coll[Ranking[i]] |-> Ranking[i]] ELSE <<>>)
         \o Ranked(coll, i + 1)

\* a similarity_search that returns every chunk, whatever k
similarity_search_Unlimited(coll, k, search) ==
    IF search = "ok" THEN Ranked(coll, 1) ELSE <<>>

\* similarity_search, lines 108-113: the k nearest chunks, [] when the backend raises
similarity_search(coll, k, search) ==
    IF search = "ok"
    THEN SubSeq(Ranked(coll, 1), 1, Min(k, Len(Ranked(coll, 1))))
    ELSE <<>>

\* get_collection_stats, lines 122-136: the count, 0 when the backend raises
get_collection_stats(coll, count_ok) ==
    [total_documents |-> IF count_ok THEN BagSize(coll) ELSE 0,
     persist_directory |-> persist_directory, collection_name |-> "documents"]

\* how the three delete strategies of clear_vector_store go: each raises, deletes
\* everything, or returns without deleting; the next one runs only after a raise
StrategyRuns ==
    { <<"deleted">>, <<"noop">>, <<"raise", "deleted">>, <<"raise", "noop">>,
      <<"raise", "raise", "deleted">>, <<"raise", "raise", "noop">>,
      <<"raise", "raise", "raise">> }

StrategyCalls == <<"delete_all", "delete_nonempty_id", "get_and_delete_ids">>

\* what the backend would do in each of the three strategies, were it called
StrategyScripts == [1..3 -> {"raise", "deleted", "noop"}]

\* a clear_vector_store that goes on to the next strategy whatever the last one did
RECURSIVE TryStrategies_All(_, _, _)
TryStrategies_All(coll, run, i) ==
    LET left == IF i <= Len(run) /\ run[i] = "deleted" THEN EmptyDict ELSE coll
        rest == TryStrategies_All(left, run, i + 1)
    IN IF i < 3
       THEN [coll |-> rest.coll, events |-> <<StrategyCalls[i]>> \o rest.events,
             raised |-> FALSE]
       ELSE [coll |-> left, events |-> <<StrategyCalls[i]>>, raised |-> FALSE]

\* the nested try blocks of clear_vector_store from the i-th strategy on, lines
\* 140-165: the handler of a strategy's exception runs the next strategy, the
\* handler of the third prints; run[i] is what the backend does in the i-th
RECURSIVE TryStrategies(_, _, _)
TryStrategies(coll, run, i) ==
    LET rest == TryStrategies(coll, run, i + 1)
    IN IF run[i] = "raise" /\ i < 3
       THEN [coll |-> rest.coll, events |-> <<StrategyCalls[i]>> \o rest.events,
             raised |-> rest.raised]
       ELSE [coll |-> IF run[i] = "deleted" THEN EmptyDict ELSE coll,
             events |-> <<StrategyCalls[i]>>, raised |-> FALSE]

\* clear_vector_store, lines 140-165
clear_vector_store(coll, run) == TryStrategies(coll, run, 1)

\* the directories of the working directory
Directories == {"chroma_db", "data"}

\* clear_vector_store_manual, lines 169-190: close, rmtree(persist_directory),
\* Chroma(...) again; when the wipe raises, Chroma(...) reopens the directory as
\* it is.  `removed` are the directories that rmtree has deleted.
clear_vector_store_manual(coll, wipe_ok) ==
    [coll |-> IF wipe_ok THEN EmptyDict ELSE coll,
     removed |-> IF wipe_ok THEN {persist_directory} ELSE {},
     events |-> <<"close", "rmtree", "chroma">>]

\* the data directory after rmtree has deleted the directories `removed` (the
\* one of the store is made again by Chroma, without the documents)
AfterRmtree(dir, removed) == IF "data" \in removed THEN EmptyDict ELSE dir

----------------------------------------------------------------------------
(* RAGChain *)

\* a _prepare_context that also cuts content of exactly the limit
ContextEntry_CutsAtLimit(i, doc) ==
    [number |-> i, source |-> doc.source,
     page |-> IF doc.page # <<>> /\ doc.page[1] # 0 THEN doc.page ELSE <<>>,
     shown |-> Min(doc.len, ContentLimit), ellipsis |-> doc.len >= ContentLimit]

\* _prepare_context, lines 103-113: the entry of the i-th Document; "if page"
\* is false for no page and for page 0
ContextEntry(i, doc) ==
    [number |-> i, source |-> doc.source,
     page |-> IF doc.page # <<>> /\ doc.page[1] # 0 THEN doc.page ELSE <<>>,
     shown |-> Min(doc.len, ContentLimit), ellipsis |-> doc.len > ContentLimit]

NoDocuments == [text |-> "No relevant documents found."]

\* the number of characters of str(n), n >= 0
RECURSIVE Digits(_)
Digits(n) == IF n < 10 THEN 1 ELSE 1 + Digits(n \div 10)

\* _prepare_context, lines 108-113: the number of characters of one entry,
\* "Document {i} (Source: {source}[, Page: {page}]):\n{content}\n"
EntryLength(e) ==
    Len("Document ") + Digits(e.number) + Len(" (Source: ") + Len(e.source)
    + (IF e.page # <<>> THEN Len(", Page: ") + Digits(e.page[1]) ELSE 0)
    + Len("):") + 1
    + e.shown + (IF e.ellipsis THEN Len("...") ELSE 0) + 1

RECURSIVE JoinedLength(_)
\* "\n".join(context_parts), line 115: the number of characters of the parts
\* with one newline between neighbours
JoinedLength(parts) ==
    IF parts = <<>> THEN 0
    ELSE IF Len(parts) = 1 THEN EntryLength(parts[1])
    ELSE EntryLength(Head(parts)) + 1 + JoinedLength(Tail(parts))

\* len(context), process_query line 74
ContextLength(context) ==
    IF context = <<NoDocuments>> THEN Len(NoDocuments.text) ELSE JoinedLength(context)

\* a _prepare_context without the placeholder
prepare_context_Joined(documents) ==
    [i \in 1..Len(documents) |-> ContextEntry(i, documents[i])]

\* _prepare_context, lines 99-115: the context as the sequence of its parts
prepare_context(documents) ==
    IF documents = <<>> THEN <<NoDocuments>>
    ELSE [i \in 1..Len(documents) |-> ContextEntry(i, documents[i])]

\* process_query, lines 67-87: the returned dictionary, for the Documents
\* retrieved before the await
RagResult(docs, m, ok, tokens) ==
    IF ok
    THEN [response |-> Reply(m), tokens_used |-> tokens, cost |-> tokens,
          sources_used |-> Len(docs),
          context_length |-> ContextLength(prepare_context(docs))]
    ELSE [response |-> Apology, tokens_used |-> 0, cost |-> 0, sources_used |-> 0,
          context_length |-> 0]

\* the backend during clear_knowledge_base: how the strategies go, whether the
\* count works and whether the wipe works (the combinations that differ in a call
\* that is not made are listed once)
ClearBackends ==
    {c \in [run : StrategyRuns, count_ok : BOOLEAN, wipe_ok : BOOLEAN] :
        /\ c.run[Len(c.run)] = "deleted" => c.count_ok /\ c.wipe_ok
        /\ ~c.count_ok => c.wipe_ok}

\* clear_knowledge_base, lines 162-181
clear_knowledge_base(coll, c) ==
    LET cleared == clear_vector_store(coll, c.run)
        stats == get_collection_stats(cleared.coll, c.count_ok)
        manual == clear_vector_store_manual(cleared.coll, c.wipe_ok)
    IN IF stats.total_documents > 0
       THEN [coll |-> manual.coll, ret |-> [success |-> TRUE], removed |-> manual.removed,
             events |-> cleared.events \o <<"count">> \o manual.events]
       ELSE [coll |-> cleared.coll, ret |-> [success |-> TRUE], removed |-> {},
             events |-> cleared.events \o <<"count">>]

\* add_documents_to_knowledge_base, lines 127-144 (the statistics in the result
\* are left out: no caller reads them)
add_documents_to_knowledge_base(coll, documents, outcome) ==
    LET added == add_documents(coll, documents, outcome)
    IN [coll |-> added.coll, events |-> added.events \o <<"count">>,
        ret |-> [success |-> TRUE, documents_added |-> Len(documents)]]

----------------------------------------------------------------------------
(* ConversationManager: the synchronous helpers *)

\* a get_or_create_conversation whose new ChatChain starts with the memory of a
\* ChatChain that is already there
get_or_create_conversation_SharedMemory(S, u, t) ==
    LET S1 == IF u \notin DOMAIN S.conv
              THEN [conv  |-> Put(S.conv, u,
                                  IF DOMAIN S.conv = {} THEN <<>>
                                  ELSE S.conv[CHOOSE v \in DOMAIN S.conv : TRUE]),
                    meta  |-> Put(S.meta, u, NewMetadata(t)),
                    order |-> IF u \in DOMAIN S.meta THEN S.order ELSE Append(S.order, u)]
              ELSE S
    IN [S1 EXCEPT !.meta[u].last_activity = t]

\* get_or_create_conversation, lines 26-36
get_or_create_conversation(S, u, t) ==
    LET S1 == IF u \notin DOMAIN S.conv
              THEN [conv  |-> Put(S.conv, u, <<>>),
                    meta  |-> Put(S.meta, u, NewMetadata(t)),
                    order |-> IF u \in DOMAIN S.meta THEN S.order ELSE Append(S.order, u)]
              ELSE S
    IN [S1 EXCEPT !.meta[u].last_activity = t]

\* process_message, lines 53-61: create the metadata if missing, count the message
CountMessage(S, u, t) ==
    LET S1 == IF u \notin DOMAIN S.meta
              THEN [S EXCEPT !.meta = Put(S.meta, u, NewMetadata(t)),
                             !.order = Append(S.order, u)]
              ELSE S
    IN [S1 EXCEPT !.meta[u].message_count = @ + 1,
                  !.meta[u].last_activity = t]

\* a process_message that tests "if not use_rag" instead of "if use_rag is None",
\* so that an explicit False falls back to the intent's default
EffectiveUseRag_Truthy(use_rag, intent) ==
    IF use_rag = "true" THEN TRUE ELSE should_use_rag(intent)

\* process_message, lines 69-70: the flag that selects the pipeline
EffectiveUseRag(use_rag, intent) ==
    IF use_rag = "none" THEN should_use_rag(intent) ELSE use_rag = "true"

\* process_message, lines 63-80, up to the await of the selected pipeline
Dispatch(S, u, m, use_rag, t) ==
    LET intent == Classified[m].intent
    IN IF EffectiveUseRag(use_rag, intent)
       THEN [S |-> S, pc |-> "rag"]
       ELSE [S |-> get_or_create_conversation(S, u, t), pc |-> "chat"]

\* process_message, lines 97-105: the error response of the except branch
ErrorResult(u, latency) ==
    [response |-> Apology, user_id |-> u, error |-> TRUE, latency_ms |-> latency,
     response_type |-> "error", intent |-> "general", confidence |-> 0]

\* process_message, lines 75/80 and 83-93: tag the pipeline's result and merge the
\* intent and session metadata; reading user_metadata[user_id] raises KeyError
\* when the user is no longer there, and the except branch answers
MergeResult(meta, result, tag, u, m, latency) ==
    IF u \notin DOMAIN meta
    THEN ErrorResult(u, latency)
    ELSE [response |-> result.response, tokens_used |-> result.tokens_used,
          cost |-> result.cost, response_type |-> tag,
          intent |-> Classified[m].intent,
          confidence |-> Classified[m].confidence,
          response_style |-> get_intent_metadata(Classified[m].intent).response_style,
          user_id |-> u, message_count |-> meta[u].message_count,
          latency_ms |-> latency]

\* a clear_conversation that clears the memory of every ChatChain
clear_conversation_EveryUser(S, u) ==
    IF u \in DOMAIN S.conv
    THEN [S |-> [S EXCEPT !.conv = [v \in DOMAIN S.conv |-> <<>>],
                          !.meta[u].message_count = 0],
          ret |-> TRUE, raised |-> u \notin DOMAIN S.meta]
    ELSE [S |-> S, ret |-> FALSE, raised |-> FALSE]

\* a clear_conversation that drops the user's ChatChain instead of emptying it
clear_conversation_DropsChain(S, u) ==
    IF u \in DOMAIN S.conv
    THEN [S |-> [S EXCEPT !.conv = Drop(S.conv, u), !.meta[u].message_count = 0],
          ret |-> TRUE, raised |-> u \notin DOMAIN S.meta]
    ELSE [S |-> S, ret |-> FALSE, raised |-> FALSE]

\* a clear_conversation that removes the user's session altogether
clear_conversation_ForgetsUser(S, u) ==
    IF u \in DOMAIN S.conv
    THEN [S |-> [conv |-> Drop(S.conv, u), meta |-> Drop(S.meta, u),
                 order |-> Without(S.order, u)],
          ret |-> TRUE, raised |-> u \notin DOMAIN S.meta]
    ELSE [S |-> S, ret |-> FALSE, raised |-> FALSE]

\* clear_conversation, lines 140-144 (user_metadata[user_id] raises KeyError for
\* a user with a ChatChain and no metadata)
clear_conversation(S, u) ==
    IF u \in DOMAIN S.conv
    THEN [S |-> [S EXCEPT !.conv[u] = <<>>, !.meta[u].message_count = 0],
          ret |-> TRUE, raised |-> u \notin DOMAIN S.meta]
    ELSE [S |-> S, ret |-> FALSE, raised |-> FALSE]

\* get_conversation_history, lines 148-150
get_conversation_history(S, u) ==
    IF u \in DOMAIN S.conv THEN chain_history(S.conv[u]) ELSE <<>>

\* a get_user_stats that answers for a user without metadata with zeroed statistics
get_user_stats_Defaults(S, u) ==
    [user_id |-> u,
     message_count |-> IF u \in DOMAIN S.meta THEN S.meta[u].message_count ELSE 0,
     created_at |-> IF u \in DOMAIN S.meta THEN S.meta[u].created_at ELSE 0,
     last_activity |-> IF u \in DOMAIN S.meta THEN S.meta[u].last_activity ELSE 0,
     active_conversations |-> Cardinality(DOMAIN S.conv)]

\* get_user_stats, lines 154-162 ({} is the empty dictionary)
get_user_stats(S, u) ==
    IF u \in DOMAIN S.meta
    THEN [user_id |-> u, message_count |-> S.meta[u].message_count,
          created_at |-> S.meta[u].created_at,
          last_activity |-> S.meta[u].last_activity,
          active_conversations |-> Cardinality(DOMAIN S.conv)]
    ELSE EmptyDict

\* cleanup_inactive_conversations, lines 166-172: the inactive users, in the
\* iteration order of user_metadata
InactiveUsers(S, hours, t) ==
    SelectSeq(S.order, LAMBDA u : S.meta[u].last_activity < t - hours * SecondsPerHour)

\* a cleanup that deletes the metadata of the inactive users and leaves their
\* ChatChains
RECURSIVE RemoveUsers_KeepsChain(_, _)
RemoveUsers_KeepsChain(S, todo) ==
    IF todo = <<>> THEN [S |-> S, raised |-> FALSE]
    ELSE LET u == Head(todo)
         IN RemoveUsers_KeepsChain([conv  |-> S.conv,
                                    meta  |-> Drop(S.meta, u),
                                    order |-> Without(S.order, u)], Tail(todo))

\* cleanup_inactive_conversations, lines 175-177: del conversations[user_id]
\* raises KeyError for a user without a ChatChain, and the loop stops there
RECURSIVE RemoveUsers(_, _)
RemoveUsers(S, todo) ==
    IF todo = <<>> THEN [S |-> S, raised |-> FALSE]
    ELSE LET u == Head(todo)
         IN IF u \notin DOMAIN S.conv
            THEN [S |-> S, raised |-> TRUE]
            ELSE RemoveUsers([conv  |-> Drop(S.conv, u),
                              meta  |-> Drop(S.meta, u),
                              order |-> Without(S.order, u)], Tail(todo))

cleanup_inactive_conversations(S, hours, t) ==
    LET inactive == InactiveUsers(S, hours, t)
        done == RemoveUsers(S, inactive)
    IN [S |-> done.S, raised |-> done.raised,
        ret |-> IF done.raised THEN -1 ELSE Len(inactive)]

----------------------------------------------------------------------------
(* The state machine *)

\* a manager as constructed, with the tally of calls kept or not
Constructed(tally) ==
    /\ conversations = EmptyDict
    /\ user_metadata = EmptyDict
    /\ key_order = <<>>
    /\ calls = EmptyDict
    /\ now = 0
    /\ counting = tally
    /\ sent = [u \in Users |-> 0]
    /\ data_dir = EmptyDict
    /\ collection = EmptyDict
    /\ uploads = {}
    /\ persist_directory = "chroma_db"

InitOf(tally) ==
    /\ Constructed(tally)
    /\ last = [op |-> "init"]

Init == InitOf(FALSE)

\* the tally after an operation: `counted` when the run keeps it
Tally(counted) ==
    /\ sent' = IF counting THEN counted ELSE sent
    /\ UNCHANGED counting

SetManager(S) ==
    /\ conversations' = S.conv
    /\ user_metadata' = S.meta
    /\ key_order' = S.order

\* a chat coroutine holds its ChatChain object: once the manager has dropped that
\* object (del conversations[user_id]), what the coroutine appends to it no
\* longer reaches the manager's maps
Orphaned(f, gone) ==
    IF f.pc = "chat" /\ f.user \in gone THEN [f EXCEPT !.stale = TRUE] ELSE f

Orphan(cs, gone) ==
    [g \in {Orphaned(f, gone) : f \in DOMAIN cs} |->
        BagSizeOver(cs, {f \in DOMAIN cs : Orphaned(f, gone) = g})]

\* process_message(message, user_id, use_rag), lines 50-80, up to the await on
\* the generation backend inside the selected pipeline
ProcessMessage(u, m, use_rag, search) ==
    /\ sent[u] < MaxCalls
    /\ u \in DOMAIN user_metadata => user_metadata[u].message_count < MaxCalls
    /\ LET counted == CountMessage(Manager, u, now)
           d == Dispatch(counted, u, m, use_rag, now)
           \* process_query, lines 53-56, runs before the await
           docs == IF d.pc = "rag" THEN similarity_search(collection, RetrievalK, search)
                   ELSE <<>>
           frame == [pc |-> d.pc, user |-> u, message |-> m, start_time |-> now,
                     stale |-> FALSE, docs |-> docs,
                     search |-> IF d.pc = "rag" THEN search ELSE "none"]
       IN /\ SetManager(d.S)
          /\ calls' = BagAdd(calls, frame)
          /\ last' = [op |-> "process_message", user |-> u, use_rag |-> use_rag,
                      frame |-> frame,
                      context |-> IF d.pc = "rag" THEN prepare_context(docs) ELSE <<>>,
                      \* chat(), lines 66-74: the history put in the prompt
                      chat_history |-> IF d.pc = "chat" THEN d.S.conv[u] ELSE <<>>]
    /\ Tally([sent EXCEPT ![u] = IF @ < 0 THEN @ ELSE @ + 1])
    /\ UNCHANGED <<now, kbvars>>

\* process_message resumed on the direct-chat path: chat() lines 76-94, then
\* process_message lines 80-106
ChatResume(f, ok, tokens) ==
    /\ f \in DOMAIN calls
    /\ f.pc = "chat"
    /\ LET result == ChatResult(f.message, ok, tokens)
           latency == (now - f.start_time) * 1000
       IN /\ conversations' =
                IF f.stale THEN conversations
                ELSE [conversations EXCEPT ![f.user] = ChatMemory(@, f.message, ok)]
          /\ last' = [op |-> "chat", user |-> f.user, frame |-> f, ok |-> ok,
                      raised |-> FALSE, pipeline |-> result,
                      ret |-> MergeResult(user_metadata, result, "chat", f.user,
                                          f.message, latency)]
    /\ calls' = BagRemove(calls, f)
    /\ UNCHANGED <<user_metadata, key_order, now, counting, sent, kbvars>>

\* a RAG path that records its turn in the user's ChatChain, when there is one
RagResume_RecordsTurn(f, ok, tokens) ==
    /\ f \in DOMAIN calls
    /\ f.pc = "rag"
    /\ LET result == RagResult(f.docs, f.message, ok, tokens)
           latency == (now - f.start_time) * 1000
       IN last' = [op |-> "rag", user |-> f.user, frame |-> f, ok |-> ok,
                   raised |-> FALSE, pipeline |-> result,
                   ret |-> MergeResult(user_metadata, result, "rag", f.user,
                                       f.message, latency)]
    /\ conversations' =
          IF f.user \in DOMAIN conversations
          THEN [conversations EXCEPT ![f.user] = ChatMemory(@, f.message, ok)]
          ELSE conversations
    /\ calls' = BagRemove(calls, f)
    /\ UNCHANGED <<user_metadata, key_order, now, counting, sent, kbvars>>

\* process_message resumed on the RAG path: process_query lines 67-87, then
\* process_message lines 75-106
RagResume(f, ok, tokens) ==
    /\ f \in DOMAIN calls
    /\ f.pc = "rag"
    /\ LET result == RagResult(f.docs, f.message, ok, tokens)
           latency == (now - f.start_time) * 1000
       IN last' = [op |-> "rag", user |-> f.user, frame |-> f, ok |-> ok,
                   raised |-> FALSE, pipeline |-> result,
                   ret |-> MergeResult(user_metadata, result, "rag", f.user,
                                       f.message, latency)]
    /\ calls' = BagRemove(calls, f)
    /\ UNCHANGED <<conversations, user_metadata, key_order, now, counting, sent, kbvars>>

\* clear_conversation(user_id)
ClearConversation(u) ==
    /\ LET r == clear_conversation(Manager, u)
       IN /\ SetManager(r.S)
          /\ last' = [op |-> "clear", user |-> u, raised |-> r.raised, ret |-> r.ret,
                      prev |-> IF last.op = "clear" /\ last.user = u
                               THEN <<last.ret>> ELSE <<>>]
          /\ Tally([sent EXCEPT ![u] =
                         IF r.ret THEN 0
                         ELSE IF u \in DOMAIN user_metadata THEN -1 ELSE @])
    /\ UNCHANGED <<calls, now, kbvars>>

\* get_conversation_history(user_id): no statement of it assigns
GetConversationHistory(u) ==
    /\ last' = [op |-> "history", user |-> u, ret |-> get_conversation_history(Manager, u)]
    /\ UNCHANGED <<sessionvars, kbvars>>

\* get_user_stats(user_id): no statement of it assigns
GetUserStats(u) ==
    /\ last' = [op |-> "stats", user |-> u, ret |-> get_user_stats(Manager, u)]
    /\ UNCHANGED <<sessionvars, kbvars>>

\* cleanup_inactive_conversations(max_inactive_hours)
CleanupInactive(hours) ==
    /\ LET r == cleanup_inactive_conversations(Manager, hours, now)
           gone == (DOMAIN conversations) \ (DOMAIN r.S.conv)
           evicted == (DOMAIN user_metadata) \ (DOMAIN r.S.meta)
       IN /\ SetManager(r.S)
          /\ calls' = Orphan(calls, gone)
          /\ last' = [op |-> "cleanup", hours |-> hours, raised |-> r.raised,
                      ret |-> r.ret]
          /\ Tally([u \in Users |-> IF u \in evicted THEN 0 ELSE sent[u]])
    /\ UNCHANGED <<now, kbvars>>

\* an hour passes, up to `clock` hours
Tick(clock) ==
    /\ now < clock * SecondsPerHour
    /\ now' = now + SecondsPerHour
    /\ last' = [op |-> "tick"]
    /\ UNCHANGED <<conversations, user_metadata, key_order, calls, counting, sent, kbvars>>

\* the operations, for the users `users` sending the messages `messages`, with at
\* most `limit` suspended coroutines, over `clock` hours, the vector backend
\* answering a search as in `searches`
NextOf(users, messages, limit, clock, searches) ==
    \/ \E u \in users, m \in messages, use_rag \in UseRagArgs, search \in searches :
           BagSize(calls) < limit /\ ProcessMessage(u, m, use_rag, search)
    \/ \E f \in DOMAIN calls, ok \in BOOLEAN, tokens \in TokenCounts : ChatResume(f, ok, tokens)
    \/ \E f \in DOMAIN calls, ok \in BOOLEAN, tokens \in TokenCounts : RagResume(f, ok, tokens)
    \/ \E u \in users : ClearConversation(u)
    \/ \E u \in users : GetConversationHistory(u)
    \/ \E u \in users : GetUserStats(u)
    \/ \E hours \in 0..MaxHours : CleanupInactive(hours)
    \/ Tick(clock)

\* Sessions: all users, one message in flight at a time.  (In the specifications
\* without knowledge-base requests the collection stays empty: a search that
\* works and a search that fails both retrieve nothing.)
Next == NextOf(Users, {<<"hello", "there">>}, 1, MaxTime, {"ok"})

Spec == Init /\ [][Next]_vars

\* Concurrency: one user, several messages in flight
NextConcurrent == NextOf({"u1"}, {<<"hello", "there">>}, MaxInFlight, MaxTime, {"ok"})

SpecConcurrent == Init /\ [][NextConcurrent]_vars

\* Routing: one user, every message, one in flight at a time, the calls tallied
InitRouting == InitOf(TRUE)

NextRouting == NextOf({"u1"}, Messages, 1, MaxTime, {"ok"})

SpecRouting == InitRouting /\ [][NextRouting]_vars

\* Turns: one user, two messages that go to direct chat by default, several in
\* flight within one hour, the calls tallied
NextTurns ==
    NextOf({"u1"}, {<<"hello", "there">>, <<"status", "update">>}, MaxInFlight, 1, {"ok"})

SpecTurns == InitRouting /\ [][NextTurns]_vars

\* Isolation: all users, several messages in flight, within one instant
NextIsolation ==
    \/ \E u \in Users, use_rag \in UseRagArgs :
           BagSize(calls) < MaxInFlight /\ ProcessMessage(u, <<"hello", "there">>, use_rag, "ok")
    \/ \E f \in DOMAIN calls, ok \in BOOLEAN, tokens \in TokenCounts : ChatResume(f, ok, tokens)
    \/ \E f \in DOMAIN calls, ok \in BOOLEAN, tokens \in TokenCounts : RagResume(f, ok, tokens)
    \/ \E u \in Users : ClearConversation(u)

SpecIsolation == Init /\ [][NextIsolation]_vars

----------------------------------------------------------------------------
(* The knowledge-base endpoints of main.py *)

Bounded(coll) == \A c \in DOMAIN coll : coll[c] <= MaxCopies

\* an upload_document whose ingestion yields to the event loop before persisting
UploadAwaits_BeforePersist == {"read", "persist"}

\* the labels of upload_document at which the coroutine yields to the event
\* loop: the await of file.read(), line 240
UploadAwaits == {"read"}

UploadReturn(R, response) ==
    [dir |-> R.dir, coll |-> R.coll, events |-> R.events, frames |-> {},
     ret |-> <<response>>]

\* upload_document, lines 222-305, run from the label pc of the coroutine f until
\* it yields or returns; R is the data directory, the collection and the backend
\* calls made so far, o the backend's behaviour
RECURSIVE upload_document(_, _, _, _)
upload_document(pc, R, f, o) ==
    LET documents ==
            IF f.file \notin DOMAIN R.dir THEN <<>>
            ELSE IF Suffix[f.file] = "pdf" THEN load_pdf(f.file, R.dir[f.file])
            ELSE load_text(f.file, R.dir[f.file])
    IN IF pc # f.pc /\ pc \in UploadAwaits
       THEN [dir |-> R.dir, coll |-> R.coll, events |-> R.events,
             frames |-> {[f EXCEPT !.pc = pc]}, ret |-> <<>>]
       ELSE CASE pc = "open" ->
                   \* lines 227-239: the duplicate check, then open(file_path, "wb")
                   IF f.file \in DOMAIN R.dir
                   THEN UploadReturn(R, [success |-> FALSE, error |-> "Duplicate file"])
                   ELSE upload_document("read", [R EXCEPT !.dir = Put(@, f.file, "empty")], f, o)
              [] pc = "read" ->
                   \* lines 240-241: the content arrives and is written through the
                   \* open handle, into the file unless it was unlinked meanwhile
                   upload_document("load",
                       [R EXCEPT !.dir = IF f.unlinked THEN @ ELSE Put(@, f.file, f.content)], f, o)
              [] pc = "load" ->
                   \* lines 244-262; the HTTPExceptions are caught at line 298
                   IF Suffix[f.file] \notin {"pdf", "txt"}
                   THEN UploadReturn(R, [success |-> FALSE, error |-> "Unsupported file type"])
                   ELSE IF documents = <<>>
                   THEN UploadReturn(R, [success |-> FALSE,
                                         error |-> "Could not load document content"])
                   ELSE upload_document("split", [R EXCEPT !.events = @ \o <<"ingest">>], f, o)
              [] pc = "split" ->
                   \* line 265, into add_documents lines 85-86
                   IF o.add = "split"
                   THEN upload_document("initialize",
                            [R EXCEPT !.events = @ \o <<"split", "ingested", "count">>], f, o)
                   ELSE upload_document("insert", [R EXCEPT !.events = @ \o <<"split">>], f, o)
              [] pc = "insert" ->
                   \* add_documents line 89
                   IF o.add = "insert"
                   THEN upload_document("initialize",
                            [R EXCEPT !.events = @ \o <<"add_documents", "ingested", "count">>],
                            f, o)
                   ELSE upload_document("persist",
                            [R EXCEPT !.coll = AddChunks(@, split_documents(documents)),
                                      !.events = @ \o <<"add_documents">>], f, o)
              [] pc = "persist" ->
                   \* add_documents line 90
                   upload_document("initialize",
                       [R EXCEPT !.events = @ \o <<"persist", "ingested", "count">>], f, o)
              [] OTHER ->
                   \* lines 267-288: result["success"] is always True; with
                   \* initialize_kb every file of the directory is ingested again
                   LET again == add_documents_to_knowledge_base(
                                    R.coll, load_all_documents(R.dir), o.again)
                       response == [success |-> TRUE, documents_added |-> Len(documents)]
                   IN IF f.initialize_kb
                      THEN UploadReturn([R EXCEPT !.coll = again.coll,
                                                  !.events = @ \o again.events], response)
                      ELSE UploadReturn(R, response)

\* the backend during an upload: its first ingestion and, with initialize_kb, its second
UploadBackends(f) ==
    {o \in [add : AddOutcomes, again : AddOutcomes] : ~f.initialize_kb => o.again = "ok"}

KnowledgeBase == [dir |-> data_dir, coll |-> collection, events |-> <<>>]

\* POST /upload-document of a file with the given content, up to the await of
\* file.read()
UploadDocument(name, content, initialize_kb) ==
    /\ Cardinality(uploads) < MaxUploads
    /\ LET f == [file |-> name, content |-> content, initialize_kb |-> initialize_kb,
                 pc |-> "open", unlinked |-> FALSE]
           r == upload_document("open", KnowledgeBase, f, [add |-> "ok", again |-> "ok"])
       IN /\ data_dir' = r.dir
          /\ collection' = r.coll
          /\ uploads' = uploads \cup r.frames
          /\ last' = [op |-> "upload", file |-> name, events |-> r.events, ret |-> r.ret]
    /\ UNCHANGED <<persist_directory, sessionvars>>

\* POST /upload-document resumed
UploadResume(f, o) ==
    /\ f \in uploads
    /\ LET r == upload_document(f.pc, KnowledgeBase, f, o)
       IN /\ Bounded(r.coll)
          /\ data_dir' = r.dir
          /\ collection' = r.coll
          /\ uploads' = (uploads \ {f}) \cup r.frames
          /\ last' = [op |-> "upload", file |-> f.file, events |-> r.events, ret |-> r.ret]
    /\ UNCHANGED <<persist_directory, sessionvars>>

\* POST /knowledge-base/initialize, lines 407-438
InitializeKnowledgeBase(o) ==
    /\ LET documents == load_all_documents(data_dir)
           r == add_documents_to_knowledge_base(collection, documents, o)
       IN IF documents = <<>>
          THEN /\ last' = [op |-> "initialize", events |-> <<>>,
                           ret |-> <<[success |-> FALSE, error |-> "No documents to process"]>>]
               /\ UNCHANGED collection
          ELSE /\ Bounded(r.coll)
               /\ collection' = r.coll
               /\ last' = [op |-> "initialize", events |-> r.events, ret |-> <<r.ret>>]
    /\ UNCHANGED <<data_dir, uploads, persist_directory, sessionvars>>

\* DELETE /knowledge-base/clear, lines 453-460
ClearKnowledgeBase(c) ==
    /\ LET r == clear_knowledge_base(collection, c)
       IN /\ collection' = r.coll
          /\ data_dir' = AfterRmtree(data_dir, r.removed)
          /\ last' = [op |-> "clear_kb", events |-> r.events, ret |-> <<r.ret>>,
                      backend |-> c]
    /\ UNCHANGED <<uploads, persist_directory, sessionvars>>

\* the loop of delete_multiple_documents, lines 533-543: each name is unlinked
\* when a file of that name exists and is reported as failed otherwise
RECURSIVE UnlinkEach(_, _)
UnlinkEach(dir, names) ==
    IF names = <<>> THEN [dir |-> dir, deleted |-> <<>>, failed |-> <<>>]
    ELSE LET n == Head(names)
             rest == UnlinkEach(Drop(dir, n), Tail(names))
             skip == UnlinkEach(dir, Tail(names))
         IN IF n \in DOMAIN dir
            THEN [rest EXCEPT !.deleted = <<n>> \o @]
            ELSE [skip EXCEPT !.failed = <<n>> \o @]

\* a reinitialization that does not clear the index first
Reinitialize_NoClear(coll, dir, c, o) ==
    LET remaining == load_all_documents(dir)
        added == add_documents_to_knowledge_base(coll, remaining, o)
    IN IF remaining # <<>>
       THEN [coll |-> added.coll, dir |-> dir, ret |-> added.ret, events |-> added.events]
       ELSE [coll |-> coll, dir |-> dir, ret |-> [success |-> TRUE], events |-> <<>>]

\* what both delete endpoints do once the files are unlinked (lines 485-490 and
\* 506, 546-551 and 577): load what is left, clear the index, ingest what was
\* loaded; ret is the result of the ingestion when there was one
Reinitialize(coll, dir, c, o) ==
    LET remaining == load_all_documents(dir)
        cleared == clear_knowledge_base(coll, c)
        added == add_documents_to_knowledge_base(cleared.coll, remaining, o)
    IN IF remaining # <<>>
       THEN [coll |-> added.coll, dir |-> AfterRmtree(dir, cleared.removed),
             ret |-> added.ret, events |-> cleared.events \o added.events]
       ELSE [coll |-> cleared.coll, dir |-> AfterRmtree(dir, cleared.removed),
             ret |-> [success |-> TRUE], events |-> cleared.events]

\* the backend during a reinitialization: the clearing and the ingestion
ReinitializeBackends == [clear : ClearBackends, add : AddOutcomes]

\* a backend whose every operation succeeds: no call raises (a delete strategy
\* may still return without deleting)
SucceedingBackends ==
    {b \in ReinitializeBackends :
        /\ \A i \in 1..Len(b.clear.run) : b.clear.run[i] # "raise"
        /\ b.clear.count_ok /\ b.clear.wipe_ok
        /\ b.add = "ok"}

\* the ingestion is not reached when no file is left: such backends are listed once
Reaches(dir, b) == load_all_documents(dir) = <<>> => b.add = "ok"

\* no backend call is reached when the file is not found: the backend is listed once
Unreached(b) == b.clear.run = <<"deleted">> /\ b.add = "ok"

\* the frames of the uploads after the files `names` were unlinked: an upload that
\* holds one of them open is left with a handle on no file of the directory
Unlinked(frames, names) ==
    {IF f.file \in names THEN [f EXCEPT !.unlinked = TRUE] ELSE f : f \in frames}

\* DELETE /knowledge-base/delete, lines 467-519
DeleteDocument(name, b) ==
    /\ IF name \notin DOMAIN data_dir
       THEN /\ Unreached(b)
            /\ last' = [op |-> "delete", file |-> name, events |-> <<>>,
                        ret |-> <<[success |-> FALSE, error |-> "File not found"]>>]
            /\ UNCHANGED <<data_dir, collection, uploads>>
       ELSE LET r == Reinitialize(collection, Drop(data_dir, name), b.clear, b.add)
            IN /\ Reaches(Drop(data_dir, name), b)
               /\ Bounded(r.coll)
               /\ data_dir' = r.dir
               /\ uploads' = Unlinked(uploads, {name})
               /\ collection' = r.coll
               /\ last' = [op |-> "delete", file |-> name, events |-> r.events,
                           ret |-> <<[success |-> TRUE, deleted_files |-> <<name>>]>>]
    /\ UNCHANGED <<persist_directory, sessionvars>>

\* DELETE /knowledge-base/delete-multiple, lines 526-595
DeleteMultipleDocuments(names, b) ==
    /\ LET u == UnlinkEach(data_dir, names)
           r == Reinitialize(collection, u.dir, b.clear, b.add)
       IN    /\ Reaches(u.dir, b)
             /\ Bounded(r.coll)
             /\ data_dir' = r.dir
             /\ uploads' = Unlinked(uploads, {n \in Filenames : \E i \in 1..Len(u.deleted) : u.deleted[i] = n})
             /\ collection' = r.coll
             /\ last' = [op |-> "delete_multiple", files |-> names, events |-> r.events,
                         ret |-> <<[success |-> IF r.ret.success THEN u.failed = <<>> ELSE FALSE,
                                    deleted_files |-> u.deleted, failed_files |-> u.failed]>>]
    /\ UNCHANGED <<persist_directory, sessionvars>>

\* GET /knowledge-base/stats: reads only; what it returns in a state is
\* get_collection_stats(collection, ...)
GetKnowledgeBaseStats(count_ok) ==
    /\ get_collection_stats(collection, count_ok).total_documents >= 0
    /\ UNCHANGED vars

\* the lists of names of a delete-multiple request
DeleteRequests == UNION {[1..n -> Filenames] : n \in 1..2}

\* Knowledge base: the requests of the knowledge-base endpoints
NextKB ==
    \/ \E name \in Filenames, initialize_kb \in BOOLEAN :
           UploadDocument(name, "full", initialize_kb)
    \/ \E f \in uploads : \E o \in UploadBackends(f) : UploadResume(f, o)
    \/ \E o \in AddOutcomes : InitializeKnowledgeBase(o)
    \/ \E c \in ClearBackends : ClearKnowledgeBase(c)
    \/ \E name \in Filenames : \E b \in ReinitializeBackends : DeleteDocument(name, b)
    \/ \E count_ok \in BOOLEAN : GetKnowledgeBaseStats(count_ok)

SpecKB == Init /\ [][NextKB]_vars

\* Uploads: files of every type and content, with a backend that may fail
NextUpload ==
    \/ \E name \in Filenames \cup OtherFiles, content \in FileStates,
          initialize_kb \in BOOLEAN : UploadDocument(name, content, initialize_kb)
    \/ \E f \in uploads : \E o \in UploadBackends(f) : UploadResume(f, o)

SpecUpload == Init /\ [][NextUpload]_vars

\* Synchronization: the requests that change the data directory or the index,
\* served with a backend whose every operation succeeds
NextSync ==
    \/ \E name \in Filenames, initialize_kb \in BOOLEAN :
           UploadDocument(name, "full", initialize_kb)
    \/ \E f \in uploads : UploadResume(f, [add |-> "ok", again |-> "ok"])
    \/ InitializeKnowledgeBase("ok")
    \/ \E name \in Filenames : \E b \in SucceedingBackends : DeleteDocument(name, b)
    \/ \E names \in DeleteRequests : \E b \in SucceedingBackends :
           DeleteMultipleDocuments(names, b)

SpecSync == Init /\ [][NextSync]_vars

\* the collections a server may find persisted when it starts: chunks of whole
\* files, each file ingested once or more
PersistedCollections ==
    {coll \in UNION {[D -> 1..MaxCopies] : D \in SUBSET {Ranking[i] : i \in 1..Len(Ranking)}} :
        (Ranking[2] \in DOMAIN coll) <=> (Ranking[3] \in DOMAIN coll)}

\* The store on its own: the methods of VectorStore and of RAGChain that keep the
\* index, called on a store constructed over a persisted collection
StoredDirectories == {EmptyDict, [n \in {"a.txt"} |-> "full"]}

InitStore ==
    /\ conversations = EmptyDict
    /\ user_metadata = EmptyDict
    /\ key_order = <<>>
    /\ calls = EmptyDict
    /\ now = 0
    /\ counting = FALSE
    /\ sent = [u \in Users |-> 0]
    /\ last = [op |-> "init"]
    /\ data_dir \in StoredDirectories
    /\ collection \in PersistedCollections
    /\ uploads = {}
    /\ persist_directory \in Directories

\* the lists of Documents handed to an ingestion
Batches == {<<>>, load_text("a.txt", "full"), load_pdf("b.pdf", "full"),
            load_text("a.txt", "empty")}

\* the values of k of a search
SearchSizes == {1, 2, RetrievalK}

\* RAGChain.add_documents_to_knowledge_base(documents)
AddDocumentsToKnowledgeBase(documents, o) ==
    /\ LET r == add_documents_to_knowledge_base(collection, documents, o)
       IN /\ Bounded(r.coll)
          /\ collection' = r.coll
          /\ last' = [op |-> "add_documents_to_knowledge_base", documents |-> documents,
                      backend |-> o, before |-> collection, events |-> r.events,
                      ret |-> r.ret]
    /\ UNCHANGED <<data_dir, uploads, persist_directory, sessionvars>>

\* VectorStore.similarity_search(query, k)
SimilaritySearch(k, search) ==
    /\ last' = [op |-> "similarity_search", k |-> k, backend |-> search,
                before |-> collection, raised |-> FALSE,
                ret |-> similarity_search(collection, k, search)]
    /\ UNCHANGED <<kbvars, sessionvars>>

\* VectorStore.get_collection_stats()
GetCollectionStats(count_ok) ==
    /\ last' = [op |-> "get_collection_stats", backend |-> count_ok,
                before |-> collection, raised |-> FALSE,
                ret |-> get_collection_stats(collection, count_ok)]
    /\ UNCHANGED <<kbvars, sessionvars>>

\* VectorStore.clear_vector_store()
ClearVectorStore(run) ==
    /\ LET r == clear_vector_store(collection, run)
       IN /\ collection' = r.coll
          /\ last' = [op |-> "clear_vector_store", backend |-> run, events |-> r.events,
                      raised |-> r.raised]
    /\ UNCHANGED <<data_dir, uploads, persist_directory, sessionvars>>

\* VectorStore.clear_vector_store_manual()
ClearVectorStoreManual(wipe_ok) ==
    /\ LET r == clear_vector_store_manual(collection, wipe_ok)
       IN /\ collection' = r.coll
          /\ data_dir' = AfterRmtree(data_dir, r.removed)
          /\ last' = [op |-> "clear_vector_store_manual", backend |-> wipe_ok,
                      events |-> r.events, removed |-> r.removed, files |-> data_dir]
    /\ UNCHANGED <<uploads, persist_directory, sessionvars>>

NextStore ==
    \/ \E documents \in Batches, o \in AddOutcomes : AddDocumentsToKnowledgeBase(documents, o)
    \/ \E k \in SearchSizes, search \in {"ok", "failed"} : SimilaritySearch(k, search)
    \/ \E count_ok \in BOOLEAN : GetCollectionStats(count_ok)
    \/ \E run \in StrategyScripts : ClearVectorStore(run)
    \/ \E wipe_ok \in BOOLEAN : ClearVectorStoreManual(wipe_ok)
    \/ \E c \in ClearBackends : ClearKnowledgeBase(c)

SpecStore == InitStore /\ [][NextStore]_vars

\* Duplicate check: POST /check-duplicate on a data directory that holds files.
\* What a file holds (FileStates) stands for its bytes.
calculate_file_hash(content) == <<"sha256", content>>

\* get_existing_file_hashes, utils lines 17-23: the dictionary hash -> file name
\* over every file of the directory; of several files with one hash the name kept
\* is the one iterdir() yields last, any of them: the dictionary is given as
\* hash -> the names it may hold
get_existing_file_hashes(dir) ==
    [h \in {calculate_file_hash(dir[n]) : n \in DOMAIN dir} |->
        {n \in DOMAIN dir : calculate_file_hash(dir[n]) = h}]

\* the files whose hashes check_duplicate compares with, line 617: all those of
\* the data directory, where the temporary copy is
CheckedFiles(dir, temp) == dir

\* the data directories a server may find
DuplicateDirectories ==
    UNION {[D -> FileStates] : D \in SUBSET (Filenames \cup {"temp_a.txt"})}

InitDuplicate ==
    /\ conversations = EmptyDict
    /\ user_metadata = EmptyDict
    /\ key_order = <<>>
    /\ calls = EmptyDict
    /\ now = 0
    /\ counting = FALSE
    /\ sent = [u \in Users |-> 0]
    /\ last = [op |-> "init"]
    /\ data_dir \in DuplicateDirectories
    /\ collection = EmptyDict
    /\ uploads = {}
    /\ persist_directory = "chroma_db"

\* POST /check-duplicate up to the await of file.read(), lines 604-610: the
\* temporary file is created, or emptied when there is one of that name
CheckDuplicate(name, content) ==
    /\ Cardinality(uploads) < MaxUploads
    /\ data_dir' = Put(data_dir, TempName[name], "empty")
    /\ uploads' = uploads \cup {[pc |-> "check", file |-> name, content |-> content,
                                  before |-> data_dir]}
    /\ last' = [op |-> "check_duplicate", file |-> name, ret |-> <<>>]
    /\ UNCHANGED <<collection, persist_directory, sessionvars>>

\* POST /check-duplicate resumed, lines 610-645: the content is written, hashed
\* and looked up, the temporary file is unlinked; when the temporary file is no
\* longer there, opening it raises and the except branch answers
CheckDuplicateResume(f) ==
    /\ f \in uploads
    /\ f.pc = "check"
    /\ uploads' = uploads \ {f}
    /\ LET temp == TempName[f.file]
           written == Put(data_dir, temp, f.content)
           file_hash == calculate_file_hash(written[temp])
           existing_hashes == get_existing_file_hashes(CheckedFiles(written, temp))
       IN IF temp \notin DOMAIN data_dir
          THEN /\ last' = [op |-> "check_duplicate", file |-> f.file, content |-> f.content,
                           before |-> f.before,
                           ret |-> <<[is_duplicate |-> FALSE, error |-> "Exception"]>>]
               /\ UNCHANGED data_dir
          ELSE /\ data_dir' = Drop(written, temp)
               /\ IF file_hash \in DOMAIN existing_hashes
                  THEN \E duplicate_filename \in existing_hashes[file_hash] :
                          last' = [op |-> "check_duplicate", file |-> f.file,
                                   content |-> f.content, before |-> f.before,
                                   ret |-> <<[is_duplicate |-> TRUE, file_hash |-> file_hash,
                                              duplicate_of |-> duplicate_filename]>>]
                  ELSE last' = [op |-> "check_duplicate", file |-> f.file,
                                content |-> f.content, before |-> f.before,
                                ret |-> <<[is_duplicate |-> FALSE, file_hash |-> file_hash]>>]
    /\ UNCHANGED <<collection, persist_directory, sessionvars>>

NextDuplicate ==
    \/ \E name \in Filenames, content \in FileStates : CheckDuplicate(name, content)
    \/ \E f \in uploads : CheckDuplicateResume(f)

SpecDuplicate == InitDuplicate /\ [][NextDuplicate]_vars

\* The loader on its own: the methods of DocumentLoader called on a data
\* directory that holds readable and unreadable files
LoaderDirectories ==
    UNION {[D -> FileStates] : D \in SUBSET (Filenames \cup OtherFiles)}

\* what the file of that name holds, "missing" when there is none
FileState(dir, name) == IF name \in DOMAIN dir THEN dir[name] ELSE "missing"

InitLoader ==
    /\ conversations = EmptyDict
    /\ user_metadata = EmptyDict
    /\ key_order = <<>>
    /\ calls = EmptyDict
    /\ now = 0
    /\ counting = FALSE
    /\ sent = [u \in Users |-> 0]
    /\ last = [op |-> "init"]
    /\ data_dir \in LoaderDirectories
    /\ collection = EmptyDict
    /\ uploads = {}
    /\ persist_directory = "chroma_db"

\* DocumentLoader.load_pdf(file_path)
LoadPdf(name) ==
    /\ last' = [op |-> "load_pdf", file |-> name,
                ret |-> load_pdf(name, FileState(data_dir, name))]
    /\ UNCHANGED <<kbvars, sessionvars>>

\* DocumentLoader.load_text(file_path)
LoadText(name) ==
    /\ last' = [op |-> "load_text", file |-> name,
                ret |-> load_text(name, FileState(data_dir, name))]
    /\ UNCHANGED <<kbvars, sessionvars>>

\* DocumentLoader.load_all_documents()
LoadAllDocuments ==
    /\ last' = [op |-> "load_all_documents", ret |-> load_all_documents(data_dir)]
    /\ UNCHANGED <<kbvars, sessionvars>>

NextLoader ==
    \/ \E name \in {n \in Filenames : Suffix[n] = "pdf"} : LoadPdf(name)
    \/ \E name \in {n \in Filenames \cup OtherFiles : Suffix[n] # "pdf"} : LoadText(name)
    \/ LoadAllDocuments

SpecLoader == InitLoader /\ [][NextLoader]_vars

\* Queries: the server starts on a persisted collection (VectorStore.__init__ loads
\* what the directory holds), one user asks through the RAG pipeline
InitQuery ==
    /\ conversations = EmptyDict
    /\ user_metadata = EmptyDict
    /\ key_order = <<>>
    /\ calls = EmptyDict
    /\ now = 0
    /\ counting = FALSE
    /\ sent = [u \in Users |-> 0]
    /\ last = [op |-> "init"]
    /\ data_dir = EmptyDict
    /\ collection \in PersistedCollections
    /\ uploads = {}
    /\ persist_directory = "chroma_db"

NextQuery ==
    NextOf({"u1"}, {<<"what is", "the", "docker", "deployment", "architecture">>}, 1, 1,
           {"ok", "failed"})

SpecQuery == InitQuery /\ [][NextQuery]_vars

\* The classifier on its own: a message arrives, classify_intent is applied to it
InitClassify ==
    /\ Constructed(FALSE)
    /\ \E m \in TestMessages : last = [op |-> "input", message |-> m]

Classify ==
    /\ last.op = "input"
    /\ last' = [op |-> "classify", message |-> last.message,
                ret |-> classify_intent(last.message)]
    /\ UNCHANGED <<sessionvars, kbvars>>

NextClassify == Classify

SpecClassify == InitClassify /\ [][NextClassify]_vars

----------------------------------------------------------------------------
(* Properties *)

Others(f, u) == [x \in (DOMAIN f) \ {u} |-> f[x]]

\* C1: for every user, once the N process_message calls made since the count
\* was last 0 (no clear_conversation, no eviction in between) have all
\* returned, get_user_stats(user)["message_count"] is N.
C1_MessageCountIsCalls ==
    \A u \in Users :
        (InFlight(u) = {} /\ sent[u] >= 1) =>
            /\ u \in DOMAIN user_metadata
            /\ get_user_stats(Manager, u).message_count = sent[u]

\* C2: process_message dispatches to the RAG pipeline exactly when the use_rag
\* argument is True, or is None and the classified intent's default is use_rag;
\* one pipeline is invoked per call, and a result that comes back from that
\* pipeline carries its tag, "rag" or "chat".
C2_DispatchFollowsFlag ==
    /\ last.op = "process_message" =>
          LET intent == classify_intent(last.frame.message).intent
              flag == IF last.use_rag = "none" THEN IntentMetadata[intent].use_rag
                      ELSE last.use_rag = "true"
          IN /\ last.frame.pc = IF flag THEN "rag" ELSE "chat"
             /\ last.frame \in DOMAIN calls
             /\ BagSize(calls) >= 1
    /\ last.op \in {"chat", "rag"} =>
          /\ last.frame.pc = last.op
          /\ last.ret.response_type \in {last.op, "error"}
          /\ last.ret.response_type = "error" => last.user \notin DOMAIN user_metadata

\* C2 witness: an explicit use_rag=False sent a message classified TECHNICAL
\* (default use_rag) to direct chat, and its result came back tagged "chat"
C2_Witness ==
    /\ last.op = "chat"
    /\ classify_intent(last.frame.message).intent = "technical"
    /\ last.ret.response_type = "chat"

\* C3: when process_message answers with the error response, that response has
\* response_type "error", intent "general", confidence 0 and a latency_ms, and
\* the user's session still holds the message counted and the activity recorded
\* at the start of the call.
C3_ErrorKeepsCountedMessage ==
    (last.op \in {"chat", "rag"} /\ last.ret.response_type = "error") =>
        /\ last.ret.intent = "general"
        /\ last.ret.confidence = 0
        /\ "latency_ms" \in DOMAIN last.ret
        /\ last.user \in DOMAIN user_metadata
        /\ user_metadata[last.user].message_count >= 1
        /\ user_metadata[last.user].last_activity >= last.frame.start_time

\* C4: no public operation of the manager raises.
C4_NoOperationRaises ==
    last.op \in {"chat", "rag", "clear", "cleanup"} => ~last.raised

\* C5: every session's direct-chat history has even length and alternates
\* human message, assistant reply.
C5_HistoryAlternates ==
    \A u \in DOMAIN conversations :
        /\ Len(conversations[u]) % 2 = 0
        /\ \A i \in 1..Len(conversations[u]) :
              conversations[u][i].role = IF i % 2 = 1 THEN "human" ELSE "ai"

\* C5 witness: one turn of a user is in the history while another call of the
\* same user is still suspended at the backend
C5_Witness ==
    \E f \in DOMAIN calls :
        /\ f.pc = "chat" /\ ~f.stale
        /\ f.user \in DOMAIN conversations
        /\ Len(conversations[f.user]) = 2

\* C6: a direct-chat turn whose generation fails returns the apology with
\* tokens_used 0 and cost 0 and leaves every history as it was; a successful turn
\* appends to its session's history the user message followed by the reply, and
\* changes nothing else.
C6_ChatTurn ==
    [][ last'.op = "chat" =>
          LET f == last'.frame
          IN IF last'.ok
             THEN /\ last'.pipeline.response = Reply(f.message)
                  /\ conversations' =
                        IF f.stale THEN conversations
                        ELSE [conversations EXCEPT ![f.user] =
                                 @ \o <<HumanMessage(f.message), AIMessage(Reply(f.message))>>]
             ELSE /\ last'.pipeline = [response |-> Apology, tokens_used |-> 0, cost |-> 0]
                  /\ conversations' = conversations ]_vars

\* C6 witness: a turn failed after an earlier turn of the same user had succeeded
C6_Witness ==
    /\ last.op = "chat"
    /\ ~last.ok
    /\ last.user \in DOMAIN conversations
    /\ Len(conversations[last.user]) = 2

\* C7: cleanup_inactive_conversations(h) removes exactly the sessions whose
\* last_activity is earlier than now - h hours, leaves every other session as it
\* was, and returns the number of sessions removed.
C7_CleanupRemovesExactlyInactive ==
    [][ last'.op = "cleanup" =>
          LET inactive == {u \in DOMAIN user_metadata :
                              user_metadata[u].last_activity
                                  < now - last'.hours * SecondsPerHour}
          IN /\ ~last'.raised
             /\ DOMAIN user_metadata' = (DOMAIN user_metadata) \ inactive
             /\ DOMAIN conversations' = (DOMAIN conversations) \ inactive
             /\ \A u \in DOMAIN user_metadata' : user_metadata'[u] = user_metadata[u]
             /\ \A u \in DOMAIN conversations' : conversations'[u] = conversations[u]
             /\ last'.ret = Cardinality(inactive) ]_vars

\* C8: clear_conversation(user) returns False exactly when the user has no
\* session (no statistics); it returns True for every user with a session.
C8_ClearReturnsFalseIffNoSession ==
    last.op = "clear" => (last.ret = FALSE <=> last.user \notin DOMAIN user_metadata)

\* C9: after clear_conversation(user) returned True the user's history is empty
\* and message_count is 0, created_at is what it was, and no other user's
\* history or metadata has changed.
C9_ClearFrame ==
    [][ (last'.op = "clear" /\ last'.ret) =>
          LET u == last'.user
          IN /\ conversations'[u] = <<>>
             /\ user_metadata'[u].message_count = 0
             /\ user_metadata'[u].created_at = user_metadata[u].created_at
             /\ Others(conversations', u) = Others(conversations, u)
             /\ Others(user_metadata', u) = Others(user_metadata, u) ]_vars

\* C9 witness: a user was cleared while another user holds a recorded turn
C9_Witness ==
    /\ last.op = "clear" /\ last.ret
    /\ \E v \in DOMAIN conversations :
          /\ v # last.user
          /\ Len(conversations[v]) = 2
          /\ user_metadata[v].message_count >= 1

\* C10 as stated: of two clear_conversation(user) calls in a row for a user with
\* a session, the first returns True and the second False, and neither raises.
C10_SecondClearReturnsFalse ==
    (last.op = "clear" /\ last.prev # <<>> /\ last.user \in DOMAIN user_metadata) =>
        /\ last.prev[1] = TRUE
        /\ last.ret = FALSE
        /\ ~last.raised

\* C10 amended: of two clear_conversation(user) calls in a row, the second
\* returns what the first returned - True both times for a user with a direct-chat
\* conversation, which clearing keeps - and neither raises.
C10_SecondClearReturnsSame ==
    (last.op = "clear" /\ last.prev # <<>>) =>
        /\ last.ret = last.prev[1]
        /\ last.ret <=> last.user \in DOMAIN conversations
        /\ ~last.raised

\* C10 witness: two clears in a row both returned True
C10_Witness ==
    /\ last.op = "clear"
    /\ last.prev = <<TRUE>>
    /\ last.ret = TRUE

\* C11: get_user_stats(user) is empty until the user's first process_message; it
\* is non-empty once that call has begun, whichever pipeline handles it and
\* whether or not it succeeds; it becomes empty again only when
\* cleanup_inactive_conversations evicts the user; clear_conversation never
\* makes it empty.
C11_SessionLifecycle ==
    /\ \A u \in Users : get_user_stats(Manager, u) = EmptyDict
    /\ [][ \A u \in Users :
              LET before == get_user_stats(Manager, u)
                  after == get_user_stats([conv |-> conversations', meta |-> user_metadata',
                                           order |-> key_order'], u)
              IN /\ (before = EmptyDict /\ after # EmptyDict) =>
                        (last'.op = "process_message" /\ last'.user = u)
                 /\ (last'.op = "process_message" /\ last'.user = u) => after # EmptyDict
                 /\ (before # EmptyDict /\ after = EmptyDict) => last'.op = "cleanup"
                 /\ last'.op = "clear" => (after = EmptyDict <=> before = EmptyDict) ]_vars

\* C11 witness: clear_conversation was called for a user whose messages all went to
\* the RAG pipeline, and the statistics of that user are still there
C11_Witness ==
    /\ last.op = "clear"
    /\ ~last.ret
    /\ get_user_stats(Manager, last.user) # EmptyDict

C12_ConcurrentFirstTouch ==
    \A u \in Users :
        (sent[u] = 2 /\ BagSizeOver(calls, InFlight(u)) = 2) =>
            /\ u \in DOMAIN user_metadata
            /\ Len(SelectSeq(key_order, LAMBDA v : v = u)) = 1
            /\ user_metadata[u].message_count = 2

\* C13: a session's history changes only by a clear, which empties it, or by a
\* direct-chat call completing its generation, which appends that call's user
\* message immediately followed by the reply to that message: the turns are in
\* the order in which the calls complete, whatever the order in which they began.
C13_TurnsInCompletionOrder ==
    [][ /\ \A u \in (DOMAIN conversations) \cap (DOMAIN conversations') :
              conversations'[u] # conversations[u] =>
                  \/ last'.op = "clear" /\ last'.user = u /\ conversations'[u] = <<>>
                  \/ /\ last'.op = "chat" /\ last'.ok /\ last'.user = u
                     /\ conversations'[u] =
                            conversations[u] \o <<HumanMessage(last'.frame.message),
                                                  AIMessage(Reply(last'.frame.message))>>
        /\ (last'.op = "chat" /\ last'.ok /\ ~last'.frame.stale) =>
              /\ Len(conversations'[last'.user]) = Len(conversations[last'.user]) + 2
              /\ SubSeq(conversations'[last'.user], 1, Len(conversations[last'.user]))
                     = conversations[last'.user]
        /\ \A u \in DOMAIN conversations' :
              \A k \in 1..(Len(conversations'[u]) \div 2) :
                  /\ conversations'[u][2 * k - 1].role = "human"
                  /\ conversations'[u][2 * k] =
                         AIMessage(Reply(conversations'[u][2 * k - 1].content)) ]_vars

\* C13 witness: a turn was appended after an earlier turn with another message,
\* while a third call of the user was suspended at the backend
C13_Witness ==
    /\ last.op = "chat" /\ last.ok
    /\ last.user \in DOMAIN conversations
    /\ Len(conversations[last.user]) = 4
    /\ conversations[last.user][1].content # conversations[last.user][3].content
    /\ InFlight(last.user) # {}

\* C14: at most one ingestion (from the entry into add_documents to its exit) is
\* in flight: no request begins an ingestion or a clearing call while an
\* ingestion that began earlier - in the same request or in a suspended one - has
\* not ended, and no two suspended requests are inside an ingestion.
C14_OneIngestionAtATime ==
    [][ last'.op \in {"upload", "initialize", "clear_kb", "delete"} =>
          LET inside(fs) == {f \in fs : f.pc \in {"split", "insert", "persist"}}
              e == last'.events
              Depth(i) == Cardinality(inside(uploads))
                          + Cardinality({j \in 1..(i - 1) : e[j] = "ingest"})
                          - Cardinality({j \in 1..(i - 1) : e[j] = "ingested"})
          IN /\ \A i \in 1..Len(e) :
                    e[i] \in {"ingest", "delete_all", "delete_nonempty_id",
                              "get_and_delete_ids", "rmtree"} => Depth(i) = 0
             /\ Cardinality(inside(uploads')) <= 1 ]_vars

\* C14 witness: a delete request cleared the collection and ingested the
\* remaining file while an upload was suspended
C14_Witness ==
    /\ last.op = "delete"
    /\ \E i \in 1..Len(last.events) : last.events[i] = "ingested"
    /\ uploads # {}

\* C15: when the retrieval or the generation fails during process_query, the call
\* returns, without raising, the error-shaped result: the apology, tokens_used 0,
\* cost 0 and sources_used 0.
C15_FailureGivesErrorResult ==
    (last.op = "rag" /\ (last.frame.search = "failed" \/ ~last.ok)) =>
        /\ ~last.raised
        /\ last.pipeline = [response |-> Apology, tokens_used |-> 0, cost |-> 0,
                            sources_used |-> 0, context_length |-> 0]

\* C16: the context built by the RAG pipeline is never empty: it is the placeholder
\* "No relevant documents found." without a retrieved segment and has one entry
\* per retrieved segment otherwise; at most 4 segments are retrieved, and the
\* result of a generation reports their number as sources_used.
C16_ContextNeverEmpty ==
    /\ (last.op = "process_message" /\ last.frame.pc = "rag") =>
          LET docs == last.frame.docs
          IN /\ last.context # <<>>
             /\ docs = <<>> => last.context = <<[text |-> "No relevant documents found."]>>
             /\ docs # <<>> =>
                   /\ Len(last.context) = Len(docs)
                   /\ \A i \in 1..Len(docs) :
                         /\ last.context[i].number = i
                         /\ last.context[i].source = docs[i].source
             /\ Len(docs) <= 4
    /\ last.op = "rag" =>
          /\ last.pipeline.sources_used <= 4
          /\ last.ok => last.pipeline.sources_used = Len(last.frame.docs)

\* C16 witness: a query on a collection of more than four chunks was answered from
\* four sources
C16_Witness ==
    /\ last.op = "rag" /\ last.ok
    /\ last.pipeline.sources_used = 4
    /\ BagSize(collection) > 4

\* C20: after clear_knowledge_base returned success = true the collection holds
\* no document.
C20_ClearEmptiesCollection ==
    (last.op = "clear_kb" /\ last.ret[1].success) => BagSize(collection) = 0

\* C21: clear_vector_store calls the three delete strategies in the order delete
\* of all records, delete of any non-empty id, enumeration and delete by ids; a
\* strategy is called only when every earlier one has raised, none is called
\* after one that returned, and the operation does not raise, not even when all
\* three strategies raise.
C21_StrategiesInOrder ==
    last.op = "clear_vector_store" =>
        LET n == Len(last.events)
        IN /\ n \in 1..3
           /\ \A i \in 1..n : last.events[i] = StrategyCalls[i]
           /\ \A i \in 1..(n - 1) : last.backend[i] = "raise"
           /\ n < 3 => last.backend[n] # "raise"
           /\ ~last.raised

\* all three strategies were called, each raised, and the store is as it was
C21_Witness ==
    /\ last.op = "clear_vector_store"
    /\ last.backend = <<"raise", "raise", "raise">>
    /\ Len(last.events) = 3
    /\ collection # EmptyDict

\* C22: clear_knowledge_base runs clear_vector_store_manual before it returns
\* exactly when the index still holds a document after clear_vector_store has
\* returned: always then, and never when the index is empty.
C22_ManualWipeIffDocumentsLeft ==
    [][last'.op = "clear_kb" =>
          LET run == last'.backend.run
              held == collection # EmptyDict /\ run[Len(run)] # "deleted"
              wiped == \E i \in 1..Len(last'.events) : last'.events[i] = "rmtree"
          IN held <=> wiped]_vars

\* C23: clear_vector_store_manual deletes the persist directory only after it
\* has validated that the directory is the store's own; for a store set up on a
\* directory that holds other data (here the data directory of the documents)
\* the validation does not pass and nothing is deleted.
C23_WipeOnlyDedicatedDirectory ==
    (last.op = "clear_vector_store_manual" /\ persist_directory = "data") =>
        /\ last.removed = {}
        /\ data_dir = last.files

\* C24: when the chunking, the insertion or the persisting of an ingestion fails,
\* add_documents_to_knowledge_base returns success = false with
\* documents_added = 0; it returns success = true only when the chunks of the
\* Documents it was given are in the index.
C24_IngestionFailureReported ==
    (last.op = "add_documents_to_knowledge_base" /\ last.documents # <<>>) =>
        /\ last.backend # "ok" =>
               ~last.ret.success /\ last.ret.documents_added = 0
        /\ last.ret.success =>
               collection = AddChunks(last.before, split_documents(last.documents))

\* C25: an ingestion of an empty list of Documents makes no chunking, insert or
\* persist call on the index, leaves the indexed chunks as they were, and reports
\* documents_added = 0.
C25_EmptyIngestionIsNoOp ==
    (last.op = "add_documents_to_knowledge_base" /\ last.documents = <<>>) =>
        /\ collection = last.before
        /\ \A i \in 1..Len(last.events) :
               last.events[i] \notin {"split", "add_documents", "persist"}
        /\ last.ret.documents_added = 0

\* an empty list was ingested into an index that holds chunks
C25_Witness ==
    /\ last.op = "add_documents_to_knowledge_base"
    /\ last.documents = <<>>
    /\ last.before # EmptyDict
    /\ last.ret.success

\* C26: similarity_search and get_collection_stats do not raise and leave the
\* index as it was; when the backend raises, similarity_search returns the empty
\* list and get_collection_stats returns total_documents = 0 with the persist
\* directory and the collection name; a search that succeeds returns at most k
\* chunks.
C26_ReadsNeverRaise ==
    /\ last.op = "similarity_search" =>
           /\ ~last.raised
           /\ collection = last.before
           /\ last.backend = "failed" => last.ret = <<>>
           /\ last.backend = "ok" => Len(last.ret) <= last.k
    /\ last.op = "get_collection_stats" =>
           /\ ~last.raised
           /\ collection = last.before
           /\ ~last.backend =>
                  /\ last.ret.total_documents = 0
                  /\ last.ret.persist_directory = persist_directory
                  /\ last.ret.collection_name = "documents"

\* a search that succeeded on an index of more than k chunks
C26_Witness ==
    /\ last.op = "similarity_search"
    /\ last.backend = "ok"
    /\ BagSize(collection) > last.k
    /\ Len(last.ret) = last.k

\* C27: after a delete or delete-multiple request that reports success, served by
\* a backend whose every operation succeeds, the index holds chunks of exactly
\* the .pdf and .txt files that are in the data directory: no chunk of a file
\* that is gone, and every chunk of every file that is there (a file that an
\* upload has created and not yet written holds nothing to index).
C27_DeleteLeavesIndexInSync ==
    (last.op \in {"delete", "delete_multiple"} /\ last.ret[1].success) =>
        LET present == {n \in DOMAIN data_dir :
                           Suffix[n] \in {"pdf", "txt"} /\ data_dir[n] = "full"}
        IN DOMAIN collection =
               {Ranking[i] : i \in {j \in 1..Len(Ranking) : Ranking[j].source \in present}}

\* a file was deleted while another one stays, indexed
C27_Witness ==
    /\ last.op \in {"delete", "delete_multiple"}
    /\ last.ret[1].success
    /\ last.ret[1].deleted_files # <<>>
    /\ DOMAIN data_dir # {}
    /\ collection # EmptyDict

\* C28: after any sequence of upload, initialize and delete requests served by a
\* backend whose every operation succeeds, every file of the data directory is
\* in the index exactly once: no chunk of a file is held more than once, not
\* after a repeated initialize nor after an upload with initialize_kb.
C28_EachFileIndexedOnce ==
    uploads = {} =>
        \A i \in 1..Len(Ranking) :
            (Ranking[i].source \in DOMAIN data_dir /\ data_dir[Ranking[i].source] = "full")
                => (Ranking[i] \in DOMAIN collection /\ collection[Ranking[i]] = 1)

\* C29: check-duplicate answers is_duplicate = true exactly when a file that the
\* data directory already holds has the content of the uploaded file, whatever
\* the names, and the data directory holds the same files after the check as
\* before it.
C29_DuplicateIffSameContent ==
    (last.op = "check_duplicate" /\ last.ret # <<>>) =>
        /\ last.ret[1].is_duplicate <=>
               \E n \in DOMAIN last.before : last.before[n] = last.content
        /\ data_dir = last.before

\* C30: load_pdf and load_text return the empty list, and do not raise, for a
\* file that cannot be read; load_all_documents returns the Documents of every
\* .pdf and .txt file of the data directory that can be loaded, and of no other
\* file, also when some files of the directory fail to load.
C30_LoaderFailureIsIsolated ==
    /\ last.op = "load_text" =>
           IF TextLoader(last.file, FileState(data_dir, last.file)).raised
           THEN last.ret = <<>>
           ELSE last.ret = TextLoader(last.file, FileState(data_dir, last.file)).docs
    /\ last.op = "load_pdf" =>
           IF PyPDFLoader(last.file, FileState(data_dir, last.file)).raised
           THEN last.ret = <<>>
           ELSE last.ret = PyPDFLoader(last.file, FileState(data_dir, last.file)).docs
    /\ last.op = "load_all_documents" =>
           /\ \A i \in 1..Len(last.ret) :
                  /\ last.ret[i].source \in DOMAIN data_dir
                  /\ Suffix[last.ret[i].source] \in {"pdf", "txt"}
           /\ \A n \in DOMAIN data_dir :
                  LET of_n == SelectSeq(last.ret, LAMBDA d : d.source = n)
                      loaded == IF Suffix[n] = "pdf" THEN PyPDFLoader(n, data_dir[n])
                                ELSE TextLoader(n, data_dir[n])
                  IN Suffix[n] \in {"pdf", "txt"} =>
                         of_n = IF loaded.raised THEN <<>> ELSE loaded.docs

\* a batch in which one file failed to load and another one was loaded
C30_Witness ==
    /\ last.op = "load_all_documents"
    /\ \E n \in DOMAIN data_dir : Suffix[n] \in {"pdf", "txt"} /\ data_dir[n] = "corrupt"
    /\ last.ret # <<>>

\* C31: get_user_stats and get_conversation_history change nothing: the session
\* maps, the histories, the counters and the timestamps are after the call what
\* they were before it, for a user with a session and for one without; for a
\* user without a session they return {} and [] and create no session.
C31_ReadsChangeNothing ==
    [][last'.op \in {"history", "stats"} =>
          /\ conversations' = conversations
          /\ user_metadata' = user_metadata
          /\ key_order' = key_order
          /\ (last'.op = "history" /\ last'.user \notin DOMAIN conversations) =>
                 last'.ret = <<>>
          /\ (last'.op = "stats" /\ last'.user \notin DOMAIN user_metadata) =>
                 last'.ret = EmptyDict]_vars

\* the statistics of a user without a session were asked for while another user
\* has one
C31_Witness ==
    /\ last.op = "stats"
    /\ last.user \notin DOMAIN user_metadata
    /\ last.ret = EmptyDict
    /\ DOMAIN conversations # {}

\* C32: in the context of a RAG turn a segment longer than 500 characters
\* contributes its first 500 characters and "...", a segment of at most 500
\* characters contributes its content unchanged, and the context_length the
\* pipeline reports is the number of characters of the context string built
\* from the retrieved segments (header, content and newline of every entry, one
\* newline between entries, or the placeholder)
C32_TruncatedContextAndLength ==
    (last.op = "rag" /\ last.ok) =>
        LET docs == last.frame.docs
            context == prepare_context(docs)
            Header(i) == Len("Document ") + 1 + Len(" (Source: ") + Len(docs[i].source)
                         + (IF context[i].page # <<>> THEN Len(", Page: ") + 1 ELSE 0)
                         + Len("):") + 1
            Content(i) == IF docs[i].len > ContentLimit THEN ContentLimit + Len("...")
                          ELSE docs[i].len
            Chars[i \in 0..Len(docs)] ==
                IF i = 0 THEN 0
                ELSE Chars[i - 1] + Header(i) + Content(i) + 1 + (IF i > 1 THEN 1 ELSE 0)
        IN /\ docs # <<>> =>
                /\ \A i \in 1..Len(docs) :
                      /\ context[i].shown = Min(docs[i].len, ContentLimit)
                      /\ context[i].ellipsis = (docs[i].len > ContentLimit)
                /\ last.pipeline.context_length = Chars[Len(docs)]
           /\ docs = <<>> =>
                last.pipeline.context_length = Len("No relevant documents found.")

C32_Witness ==
    /\ last.op = "rag" /\ last.ok
    /\ \E i, j, k \in 1..Len(last.frame.docs) :
          /\ last.frame.docs[i].len > ContentLimit
          /\ last.frame.docs[j].len = ContentLimit
          /\ last.frame.docs[k].len < ContentLimit
    /\ last.pipeline.context_length > ContentLimit + ContentLimit

\* C33: every entry of the context of a RAG turn names the source of its
\* segment, and names the segment's page exactly when the segment's metadata has
\* a page, whatever the page number
C33_PageNamedWheneverPresent ==
    (last.op = "process_message" /\ last.frame.pc = "rag" /\ last.frame.docs # <<>>) =>
        \A i \in 1..Len(last.frame.docs) :
            /\ last.context[i].source = last.frame.docs[i].source
            /\ last.context[i].page = last.frame.docs[i].page

\* C34 as stated: the history of a user is the sequence of the user's successful
\* direct-chat turns since the user's last clear: a successful direct-chat turn
\* appends its {user, assistant} pair, a clear empties the history, and nothing
\* else changes it; a RAG turn is counted in message_count and recorded in no
\* history
C34_HistoryIsChatTurnsSinceClear ==
    [][\A u \in Users :
          LET h == get_conversation_history(Manager, u)
              h2 == IF u \in DOMAIN conversations'
                    THEN chain_history(conversations'[u]) ELSE <<>>
          IN /\ IF last'.op = "chat" /\ last'.user = u /\ last'.ok
                THEN h2 = Append(h, [user |-> last'.frame.message,
                                     assistant |-> Reply(last'.frame.message)])
                ELSE IF last'.op = "clear" /\ last'.user = u
                THEN h2 = <<>>
                ELSE h2 = h
             /\ (last'.op = "process_message" /\ last'.user = u
                    /\ last'.frame.pc = "rag") =>
                   user_metadata'[u].message_count =
                       IF u \in DOMAIN user_metadata
                       THEN user_metadata[u].message_count + 1 ELSE 1]_vars

\* C34, amended: the history of a user is the sequence of the successful
\* direct-chat turns recorded in the user's current ChatChain since the user's
\* last clear: an eviction drops the ChatChain with its turns, and a direct-chat
\* call that was suspended when its ChatChain was evicted records its turn in
\* the dropped object, not in the history; a RAG turn is counted in
\* message_count and recorded in no history
C34_HistoryIsTurnsOfCurrentChain ==
    [][\A u \in Users :
          LET h == get_conversation_history(Manager, u)
              h2 == IF u \in DOMAIN conversations'
                    THEN chain_history(conversations'[u]) ELSE <<>>
          IN /\ IF last'.op = "chat" /\ last'.user = u /\ last'.ok /\ ~last'.frame.stale
                THEN h2 = Append(h, [user |-> last'.frame.message,
                                     assistant |-> Reply(last'.frame.message)])
                ELSE IF last'.op = "clear" /\ last'.user = u
                THEN h2 = <<>>
                ELSE IF last'.op = "cleanup" /\ u \notin DOMAIN conversations'
                THEN h2 = <<>>
                ELSE h2 = h
             /\ (last'.op = "process_message" /\ last'.user = u
                    /\ last'.frame.pc = "rag") =>
                   user_metadata'[u].message_count =
                       IF u \in DOMAIN user_metadata
                       THEN user_metadata[u].message_count + 1 ELSE 1]_vars

\* C34 witness: a RAG turn of a user whose history holds a direct-chat turn
\* succeeded and was returned as 'rag'
C34_Witness ==
    /\ last.op = "rag" /\ last.ok
    /\ last.ret.response_type = "rag"
    /\ last.user \in DOMAIN conversations
    /\ Len(get_conversation_history(Manager, last.user)) = 1

\* C35: sessions are isolated: a process_message call (its beginning and its
\* completion on either pipeline) and a clear_conversation call of one user leave
\* every other user's history, message_count, created_at and last_activity as
\* they were, and the history put in the prompt of a direct-chat turn is the
\* history of the calling user's own session (empty for a new session)
C35_SessionsIsolated ==
    [][last'.op \in {"process_message", "chat", "rag", "clear"} =>
          /\ \A v \in Users \ {last'.user} :
                /\ (v \in DOMAIN conversations') = (v \in DOMAIN conversations)
                /\ v \in DOMAIN conversations => conversations'[v] = conversations[v]
                /\ (v \in DOMAIN user_metadata') = (v \in DOMAIN user_metadata)
                /\ v \in DOMAIN user_metadata => user_metadata'[v] = user_metadata[v]
          /\ (last'.op = "process_message" /\ last'.frame.pc = "chat") =>
                last'.chat_history = IF last'.user \in DOMAIN conversations
                                     THEN conversations[last'.user] ELSE <<>>]_vars

\* C35 witness: a user began a direct-chat turn on a new session while the other
\* user had a turn in the history and a call suspended at the backend
C35_Witness ==
    /\ last.op = "process_message" /\ last.frame.pc = "chat"
    /\ last.chat_history = <<>>
    /\ \E v \in Users \ {last.user} :
          /\ v \in DOMAIN conversations
          /\ Len(conversations[v]) = 2
          /\ InFlight(v) # {}

\* C36: process_message answers with response_type 'error' only when the
\* classification or the dispatch raised: a call whose pipeline returned a result
\* returns that result's response tagged with the pipeline, 'chat' or 'rag',
\* whatever clear_conversation and cleanup_inactive_conversations did to the
\* user's session while the call was suspended
C36_ErrorOnlyWhenPipelineRaised ==
    last.op \in {"chat", "rag"} =>
        /\ last.ret.response_type = last.op
        /\ last.ret.response = last.pipeline.response

\* C37: an upload-document request that answers success = false leaves the set
\* of files of the document directory and the contents of the vector index as
\* they were before the request: the file it was sent is not in the directory
\* afterwards unless it was there before, and the index is unchanged
C37_FailedUploadChangesNothing ==
    [][(last'.op = "upload" /\ last'.ret # <<>> /\ ~last'.ret[1].success) =>
          /\ collection' = collection
          /\ IF last'.ret[1].error = "Duplicate file"
             THEN DOMAIN data_dir' = DOMAIN data_dir
             ELSE DOMAIN data_dir' = (DOMAIN data_dir) \ {last'.file}]_vars

\* C38: the created_at of a session is set when the session is created and does
\* not change while the session exists - no process_message call on either
\* pipeline and no clear_conversation changes it - and created_at <= last_activity
\* in every state
C38_CreatedAtSetOnce ==
    [][/\ \A u \in (DOMAIN user_metadata) \cap (DOMAIN user_metadata') :
             user_metadata'[u].created_at = user_metadata[u].created_at
       /\ \A u \in DOMAIN user_metadata' :
             user_metadata'[u].created_at <= user_metadata'[u].last_activity]_vars

\* C39: in every state every user who has a ChatChain in conversations has an
\* entry in user_metadata, also after a cleanup_inactive_conversations that
\* stopped at a KeyError before it had removed every inactive session
C39_ChainsHaveMetadata ==
    DOMAIN conversations \subseteq DOMAIN user_metadata

\* C39 witness: a cleanup stopped at a user without a ChatChain and left behind
\* the ChatChain and the metadata of an inactive user it had not reached
C39_Witness ==
    /\ last.op = "cleanup" /\ last.raised
    /\ \E u \in DOMAIN conversations :
          /\ u \in DOMAIN user_metadata
          /\ user_metadata[u].last_activity < now - last.hours * SecondsPerHour

====
